---- MODULE Spec2Model ----
(***************************************************************************)
(* A model of the delta tensor core (src/tensor/{shape,storage,tensor}.rs).*)
(*                                                                         *)
(* A program is a sequence of calls on a handful of Tensor bindings.  Each *)
(* binding owns one Storage buffer; buffers live in a heap (store) and a   *)
(* Tensor refers to its buffer by identity, so that an operation which     *)
(* shared a buffer between two Tensors would be visible.  A panic ends the *)
(* program: the state in which it is recorded is the state at the moment   *)
(* of the panic.                                                           *)
(*                                                                         *)
(* f32 values are modelled on the part of f32 on which arithmetic is       *)
(* exact: signed integers of small magnitude (with both zeros), the two    *)
(* infinities and NaN.  A call whose result would leave that part is not   *)
(* explored.  Multi-indices are 0-based as in the source; positions in     *)
(* TLA+ sequences are 1-based.                                             *)
(*                                                                         *)
(* An operator expression (-a, a + b, a * 2.0, ...) calls the method of    *)
(* its name; an operand it takes by value is moved out of its binding and  *)
(* dropped, so that binding holds no Tensor afterwards.                    *)
(*                                                                         *)
(* Spec is the programs of MaxOps calls.  SpecDisplay is Display as a      *)
(* function of its Tensor: it starts with one Tensor built by zeros or by  *)
(* from_vec, of shapes with dimensions on both sides of the truncation     *)
(* threshold, and displays it.                                             *)
(***************************************************************************)
EXTENDS Integers, Sequences, FiniteSets, TLC

VARIABLES tensors, store, last, left

vars == <<tensors, store, last, left>>

-----------------------------------------------------------------------------
(* Bounds of the model *)

\* Number of Tensor bindings a program holds at once.
NumSlots == 2
\* Number of calls a program makes.
MaxOps == 3
\* Largest magnitude of a finite value the model follows.
MaxMag == 160

Slots == 1..NumSlots

-----------------------------------------------------------------------------
(* f32 values *)

Abs(n) == IF n < 0 THEN -n ELSE n

Num(n) == [k |-> "num", s |-> IF n < 0 THEN -1 ELSE 1, m |-> Abs(n)]
NegZero == [k |-> "num", s |-> -1, m |-> 0]
Inf(sign) == [k |-> "inf", s |-> sign, m |-> 0]
NaN == [k |-> "nan", s |-> 1, m |-> 0]
\* A quotient that is not an integer: outside the values the model follows.
Inexact == [k |-> "inexact", s |-> 1, m |-> 0]

IsZero(a) == a.k = "num" /\ a.m = 0

Followed(a) == a.k \in {"inf", "nan"} \/ (a.k = "num" /\ a.m <= MaxMag)

\* -x
FNeg(a) == IF a.k = "nan" THEN NaN ELSE [a EXCEPT !.s = -a.s]

\* a + b
FAdd(a, b) ==
    IF a.k = "nan" \/ b.k = "nan" THEN NaN
    ELSE IF a.k = "inf" /\ b.k = "inf" THEN (IF a.s = b.s THEN a ELSE NaN)
    ELSE IF a.k = "inf" THEN a
    ELSE IF b.k = "inf" THEN b
    ELSE LET n == a.s * a.m + b.s * b.m
         IN  IF n # 0 THEN Num(n)
             ELSE IF a.m = 0 /\ b.m = 0 /\ a.s = -1 /\ b.s = -1 THEN NegZero
             ELSE Num(0)

\* a - b
FSub(a, b) == FAdd(a, FNeg(b))

\* a * b
FMul(a, b) ==
    IF a.k = "nan" \/ b.k = "nan" THEN NaN
    ELSE IF (a.k = "inf" /\ IsZero(b)) \/ (IsZero(a) /\ b.k = "inf") THEN NaN
    ELSE IF a.k = "inf" \/ b.k = "inf" THEN Inf(a.s * b.s)
    ELSE [k |-> "num", s |-> a.s * b.s, m |-> a.m * b.m]

\* a / b
FDiv(a, b) ==
    IF a.k = "nan" \/ b.k = "nan" THEN NaN
    ELSE IF a.k = "inf" /\ b.k = "inf" THEN NaN
    ELSE IF IsZero(a) /\ IsZero(b) THEN NaN
    ELSE IF a.k = "inf" THEN Inf(a.s * b.s)
    ELSE IF b.k = "inf" THEN [k |-> "num", s |-> a.s * b.s, m |-> 0]
    ELSE IF IsZero(b) THEN Inf(a.s * b.s)
    ELSE IF a.m % b.m = 0 THEN [k |-> "num", s |-> a.s * b.s, m |-> a.m \div b.m]
    ELSE Inexact

-----------------------------------------------------------------------------
(* Shape (shape.rs) *)

\* Shape::ndim
Ndim(dims) == Len(dims)

\* Shape::nelems: the product of the dims, 1 for the empty shape.
RECURSIVE Nelems(_)
Nelems(dims) ==
    IF dims = <<>> THEN 1 ELSE Head(dims) * Nelems(Tail(dims))

\* The loop of Shape::strides as it would be if it stopped before the first dimension.
RECURSIVE StridesLoopSkipsFirst(_, _, _)
StridesLoopSkipsFirst(strides, dims, i) ==
    IF i < 1 THEN strides
    ELSE StridesLoopSkipsFirst([strides EXCEPT ![i + 1] = strides[i + 2] * dims[i + 2]],
                               dims, i - 1)

\* The loop of Shape::strides, for i (0-based) going down to 0.
RECURSIVE StridesLoop(_, _, _)
StridesLoop(strides, dims, i) ==
    IF i < 0 THEN strides
    ELSE StridesLoop([strides EXCEPT ![i + 1] = strides[i + 2] * dims[i + 2]],
                     dims, i - 1)

\* Shape::strides as it would be with each stride scaled by its own dimension.
RECURSIVE StridesLoopOwnDim(_, _, _)
StridesLoopOwnDim(strides, dims, i) ==
    IF i < 0 THEN strides
    ELSE StridesLoopOwnDim([strides EXCEPT ![i + 1] = strides[i + 2] * dims[i + 1]],
                           dims, i - 1)

StridesOwnDim(dims) ==
    IF dims = <<>> THEN <<>>
    ELSE StridesLoopOwnDim([i \in 1..Ndim(dims) |-> 1], dims, Ndim(dims) - 2)

\* Shape::strides: row-major strides.
Strides(dims) ==
    IF dims = <<>> THEN <<>>
    ELSE StridesLoop([i \in 1..Ndim(dims) |-> 1], dims, Ndim(dims) - 2)

-----------------------------------------------------------------------------
(* Storage (storage.rs) *)

\* Storage::zeros
StorageZeros(size) == [i \in 1..size |-> Num(0)]

\* Storage::from_vec: takes the buffer as it is.
StorageFromVec(data) == data

-----------------------------------------------------------------------------
(* Panics and outcomes of calls *)

NoMsg == [kind |-> "none", nums |-> <<>>, shapes |-> <<>>]

\* A panic message: its kind and the numbers and shapes its text is formatted from.
Msg(kind, nums, shapes) == [kind |-> kind, nums |-> nums, shapes |-> shapes]

\* What a call yields: a Tensor (data, shape, strides, offset), a value (ret), a
\* position (idx) or a panic (msg); evals counts the elements the call computed.
NoOutcome ==
    [status |-> "ok", msg |-> NoMsg, data |-> <<>>, shape |-> <<>>, strides |-> <<>>,
     offset |-> 0, ret |-> Num(0), idx |-> 0, evals |-> 0]

Panic(msg) == [NoOutcome EXCEPT !.status = "panic", !.msg = msg]

-----------------------------------------------------------------------------
(* Tensor (tensor.rs).  A Tensor value is [data, shape, strides, offset]. *)

\* Tensor::zeros
TensorZeros(dims) ==
    [NoOutcome EXCEPT !.data = StorageZeros(Nelems(dims)),
                      !.shape = dims,
                      !.strides = Strides(dims),
                      !.offset = 0]

\* Tensor::from_vec as it would be without the length assertion.
TensorFromVecUnchecked(data, dims) ==
    [NoOutcome EXCEPT !.data = StorageFromVec(data),
                      !.shape = dims,
                      !.strides = Strides(dims),
                      !.offset = 0]

\* Tensor::from_vec as it would be if only too short a buffer were refused.
TensorFromVecShortOnly(data, dims) ==
    IF Len(data) < Nelems(dims)
    THEN Panic(Msg("DataLength", <<Len(data), Nelems(dims)>>, <<dims>>))
    ELSE TensorFromVecUnchecked(data, dims)

\* Tensor::from_vec
TensorFromVec(data, dims) ==
    IF Len(data) # Nelems(dims)
    THEN Panic(Msg("DataLength", <<Len(data), Nelems(dims)>>, <<dims>>))
    ELSE [NoOutcome EXCEPT !.data = StorageFromVec(data),
                           !.shape = dims,
                           !.strides = Strides(dims),
                           !.offset = 0]

Min(a, b) == IF a < b THEN a ELSE b

\* indices.iter().zip(&strides).map(|(i, s)| i * s).sum(), over positions p..
RECURSIVE ZipSum(_, _, _)
ZipSum(indices, strides, p) ==
    IF p > Min(Len(indices), Len(strides)) THEN 0
    ELSE indices[p] * strides[p] + ZipSum(indices, strides, p + 1)

\* Tensor::linear_index
LinearIndex(t, indices) ==
    IF Len(indices) # Ndim(t.shape)
    THEN Panic(Msg("IndexArity", <<Ndim(t.shape), Len(indices)>>, <<>>))
    ELSE [NoOutcome EXCEPT !.idx = t.offset + ZipSum(indices, t.strides, 1)]

\* Indexing the storage slice at idx: panics past the end of the buffer.
SliceIndex(data, idx) ==
    IF idx >= Len(data)
    THEN Panic(Msg("SliceIndex", <<Len(data), idx>>, <<>>))
    ELSE [NoOutcome EXCEPT !.idx = idx, !.ret = data[idx + 1]]

\* Tensor::get
TensorGet(t, indices) ==
    LET li == LinearIndex(t, indices)
    IN  IF li.status = "panic" THEN li ELSE SliceIndex(t.data, li.idx)

\* Tensor::set: the Tensor with the element at indices replaced.
TensorSet(t, indices, value) ==
    LET li == LinearIndex(t, indices)
        at == IF li.status = "panic" THEN li ELSE SliceIndex(t.data, li.idx)
    IN  IF at.status = "panic" THEN at
        ELSE [NoOutcome EXCEPT !.data = [t.data EXCEPT ![at.idx + 1] = value],
                               !.shape = t.shape,
                               !.strides = t.strides,
                               !.offset = t.offset,
                               !.idx = at.idx]

\* a.iter().zip(b): the positions both buffers have.
Zip(a, b) == 1..Min(Len(a), Len(b))

ShapeMismatch(a, b) == Panic(Msg("ShapeMismatch", <<>>, <<a.shape, b.shape>>))

\* The evals of a call that computed data and handed it to from_vec.
Collected(data, dims) == [TensorFromVec(data, dims) EXCEPT !.evals = Len(data)]

\* Tensor::add as it would be if it compared element counts instead of shapes.
TensorAddByCount(a, b) ==
    IF Nelems(a.shape) # Nelems(b.shape) THEN ShapeMismatch(a, b)
    ELSE Collected([p \in Zip(a.data, b.data) |-> FAdd(a.data[p], b.data[p])], a.shape)

\* Tensor::add
TensorAdd(a, b) ==
    IF a.shape # b.shape THEN ShapeMismatch(a, b)
    ELSE Collected([p \in Zip(a.data, b.data) |-> FAdd(a.data[p], b.data[p])], a.shape)

\* Tensor::sub as it would be with the operands of the subtraction swapped.
TensorSubSwapped(a, b) ==
    IF a.shape # b.shape THEN ShapeMismatch(a, b)
    ELSE Collected([p \in Zip(a.data, b.data) |-> FSub(b.data[p], a.data[p])], a.shape)

\* Tensor::sub
TensorSub(a, b) ==
    IF a.shape # b.shape THEN ShapeMismatch(a, b)
    ELSE Collected([p \in Zip(a.data, b.data) |-> FSub(a.data[p], b.data[p])], a.shape)

\* Tensor::mul
TensorMul(a, b) ==
    IF a.shape # b.shape THEN ShapeMismatch(a, b)
    ELSE Collected([p \in Zip(a.data, b.data) |-> FMul(a.data[p], b.data[p])], a.shape)

\* Tensor::div
TensorDiv(a, b) ==
    IF a.shape # b.shape THEN ShapeMismatch(a, b)
    ELSE Collected([p \in Zip(a.data, b.data) |-> FDiv(a.data[p], b.data[p])], a.shape)

\* Tensor::scalar_add
TensorScalarAdd(a, scalar) ==
    Collected([p \in 1..Len(a.data) |-> FAdd(a.data[p], scalar)], a.shape)

\* Tensor::scalar_mul
TensorScalarMul(a, scalar) ==
    Collected([p \in 1..Len(a.data) |-> FMul(a.data[p], scalar)], a.shape)

\* Tensor::neg
TensorNeg(a) == Collected([p \in 1..Len(a.data) |-> FNeg(a.data[p])], a.shape)

\* The innermost loop of matmul as it would be reading other at [j, k].
RECURSIVE MatmulDotTransposed(_, _, _, _, _, _)
MatmulDotTransposed(a, b, i, j, k, sum) ==
    IF k >= a.shape[2] THEN sum
    ELSE MatmulDotTransposed(a, b, i, j, k + 1,
                             FAdd(sum, FMul(TensorGet(a, <<i, k>>).ret,
                                            TensorGet(b, <<j, k>>).ret)))

\* The innermost loop of matmul: sum += self.get([i, k]) * other.get([k, j]).
RECURSIVE MatmulDot(_, _, _, _, _, _)
MatmulDot(a, b, i, j, k, sum) ==
    IF k >= a.shape[2] THEN sum
    ELSE MatmulDot(a, b, i, j, k + 1,
                   FAdd(sum, FMul(TensorGet(a, <<i, k>>).ret,
                                  TensorGet(b, <<k, j>>).ret)))

\* The two outer loops of matmul, from cell (i, j) on: result.set([i, j], sum).
RECURSIVE MatmulCells(_, _, _, _, _)
MatmulCells(result, a, b, i, j) ==
    IF i >= a.shape[1] THEN result
    ELSE IF j >= b.shape[2] THEN MatmulCells(result, a, b, i + 1, 0)
    ELSE MatmulCells(TensorSet(result, <<i, j>>, MatmulDot(a, b, i, j, 0, Num(0))),
                     a, b, i, j + 1)

\* Tensor::matmul as it would be if it checked other's rank before self's.
TensorMatmulOtherFirst(a, b) ==
    IF Ndim(b.shape) # 2 THEN Panic(Msg("Rank", <<Ndim(b.shape)>>, <<>>))
    ELSE IF Ndim(a.shape) # 2 THEN Panic(Msg("Rank", <<Ndim(a.shape)>>, <<>>))
    ELSE IF a.shape[2] # b.shape[1]
    THEN Panic(Msg("InnerDimensions",
                   <<a.shape[1], a.shape[2], b.shape[1], b.shape[2]>>, <<>>))
    ELSE [MatmulCells(TensorZeros(<<a.shape[1], b.shape[2]>>), a, b, 0, 0)
            EXCEPT !.evals = a.shape[1] * b.shape[2] * a.shape[2], !.idx = 0]

\* Tensor::matmul
TensorMatmul(a, b) ==
    IF Ndim(a.shape) # 2 THEN Panic(Msg("Rank", <<Ndim(a.shape)>>, <<>>))
    ELSE IF Ndim(b.shape) # 2 THEN Panic(Msg("Rank", <<Ndim(b.shape)>>, <<>>))
    ELSE IF a.shape[2] # b.shape[1]
    THEN Panic(Msg("InnerDimensions",
                   <<a.shape[1], a.shape[2], b.shape[1], b.shape[2]>>, <<>>))
    ELSE [MatmulCells(TensorZeros(<<a.shape[1], b.shape[2]>>), a, b, 0, 0)
            EXCEPT !.evals = a.shape[1] * b.shape[2] * a.shape[2], !.idx = 0]

-----------------------------------------------------------------------------
(* Display (tensor.rs) *)

\* max_items of fmt_recursive
MaxItems == 6

\* format!("{:.4}", x) of an f32
Fmt4(x) ==
    IF x.k = "nan" THEN "NaN"
    ELSE (IF x.s = -1 THEN "-" ELSE "")
         \o (IF x.k = "inf" THEN "inf" ELSE ToString(x.m) \o ".0000")

\* format!("{:?}", dims) of a &[usize], from position p on
RECURSIVE DebugItems(_, _)
DebugItems(dims, p) ==
    IF p > Len(dims) THEN ""
    ELSE ToString(dims[p]) \o (IF p < Len(dims) THEN ", " ELSE "")
         \o DebugItems(dims, p + 1)

DebugDims(dims) == "[" \o DebugItems(dims, 1) \o "]"

\* for _ in 0..=dim { write!(f, " ") }: n spaces
RECURSIVE Spaces(_)
Spaces(n) == IF n <= 0 THEN "" ELSE " " \o Spaces(n - 1)

\* The formatter and the running offset: the text written so far, the offset,
\* the storage positions read so far, and a panic if a read was out of bounds.
NoFmt == [out |-> "", offset |-> 0, visited |-> <<>>, status |-> "ok", msg |-> NoMsg]

\* The offset skipped at the ellipsis as it would be if it counted elements of the
\* dimension, not storage positions.
SkipUnscaled(t, dim) == t.shape[dim + 1] - MaxItems

\* *offset += (size - max_items) * self.strides[dim]: the storage positions of the
\* elements that are not shown.
Skip(t, dim) == (t.shape[dim + 1] - MaxItems) * t.strides[dim + 1]

\* The second test of the loop as it would be if it kept one more element at the end.
HiddenButOne(size, i) ==
    size > MaxItems /\ i > MaxItems \div 2 /\ i < size - MaxItems \div 2 - 1

\* truncated && i > max_items / 2 && i < size - max_items / 2: iteration i is passed
\* over.
Hidden(size, i) ==
    size > MaxItems /\ i > MaxItems \div 2 /\ i < size - MaxItems \div 2

\* Tensor::fmt_recursive (FmtLoop is its for loop, from iteration i on)
RECURSIVE FmtRecursive(_, _, _), FmtLoop(_, _, _, _)
FmtRecursive(t, dim, f) ==
    IF f.status = "panic" THEN f
    ELSE IF dim = Ndim(t.shape)
    THEN IF f.offset >= Len(t.data)
         THEN [f EXCEPT !.status = "panic",
                        !.msg = Msg("SliceIndex", <<Len(t.data), f.offset>>, <<>>)]
         ELSE [f EXCEPT !.out = @ \o Fmt4(t.data[f.offset + 1]),
                        !.visited = Append(@, f.offset),
                        !.offset = @ + 1]
    ELSE LET g == FmtLoop(t, dim, 0, [f EXCEPT !.out = @ \o "["])
         IN  IF g.status = "panic" THEN g ELSE [g EXCEPT !.out = @ \o "]"]

FmtLoop(t, dim, i, f) ==
    LET size == t.shape[dim + 1]
        truncated == size > MaxItems
    IN  IF i >= size \/ f.status = "panic" THEN f
        ELSE IF truncated /\ i = MaxItems \div 2
        THEN FmtLoop(t, dim, i + 1,
                     [f EXCEPT !.offset = @ + Skip(t, dim),
                               !.out = @ \o "..., "])
        ELSE IF Hidden(size, i)
        THEN FmtLoop(t, dim, i + 1, f)
        ELSE LET g == FmtRecursive(t, dim + 1, f)
                 h == IF g.status = "panic" \/ ~(i < size - 1) THEN g
                      ELSE [g EXCEPT !.out = @ \o ", " \o
                              (IF dim < Ndim(t.shape) - 1
                               THEN "\n" \o Spaces(dim + 1) ELSE "")]
             IN  FmtLoop(t, dim, i + 1, h)

\* <Tensor as Display>::fmt
TensorDisplay(t) ==
    LET g == FmtRecursive(t, 0, [NoFmt EXCEPT !.out = "Tensor("])
    IN  IF g.status = "panic" THEN g
        ELSE [g EXCEPT !.out = @ \o ", shape=" \o DebugDims(t.shape) \o ")"]

-----------------------------------------------------------------------------
(* Inputs of the calls *)

\* Buffers of f32 values, from integers.
Buf(ints) == [p \in 1..Len(ints) |-> Num(ints[p])]

\* Shapes given to Tensor::zeros.
ZerosInputs == {<<>>, <<2>>, <<2, 3>>, <<2, 0>>, <<0, 2>>, <<2, 1, 2>>}

\* (data, shape) pairs given to Tensor::from_vec; some lengths do not match.
FromVecInputs ==
    { <<Buf(<<1, 2, 3, 4, 5, 6>>), <<2, 3>>>>,
      <<Buf(<<7, 8, 9, 10, 11, 12>>), <<3, 2>>>>,
      <<Buf(<<1, 2, 3>>), <<2, 3>>>>,
      <<Buf(<<1, 2, 3>>), <<3>>>>,
      <<Buf(<<4, -2>>), <<2>>>>,
      <<Buf(<<2, 0>>), <<2>>>>,
      <<Buf(<<2, 0>>), <<3>>>>,
      <<Buf(<<5>>), <<>>>>,
      <<Buf(<<>>), <<>>>>,
      <<Buf(<<>>), <<0, 2>>>>,
      <<Buf(<<>>), <<2, 0>>>>,
      <<Buf(<<5>>), <<2, 0>>>>,
      <<Buf(<<4, -2, 0, 1>>), <<2, 1, 2>>>> }

\* The buffer 0.0, 1.0, ..., n - 1: every element differs from every other.
Iota(n) == [p \in 1..n |-> Num(p - 1)]

\* Sizes of a dimension of a displayed Tensor: empty, small, the largest that is
\* shown whole, the smallest that is truncated, and the size of examples/basic.rs.
DisplaySizes == {0, 2, 6, 7, 10}

\* Shapes of the displayed Tensors: every shape of rank 0 to 3 over DisplaySizes.
DisplayDims ==
    {<<>>} \cup [1..1 -> DisplaySizes] \cup [1..2 -> DisplaySizes]
           \cup [1..3 -> DisplaySizes]

\* Multi-indices given to get, set and linear_index.
IndexInputs ==
    { <<>>, <<0>>, <<2>>, <<0, 1>>, <<1, 0>>, <<0, 3>>, <<2, 0>>,
      <<1, 0, 1>>, <<0, 1, 0>> }

\* Values given to set.
ValueInputs == {Num(9), NegZero}

\* Scalars given to scalar_add and scalar_mul.
ScalarInputs == {Num(2), Num(-1), Num(0)}

-----------------------------------------------------------------------------
(* The state: the Tensors the program holds, and the heap of their buffers *)

\* A binding that holds no Tensor.
Nil == [storage |-> 0, shape |-> <<>>, strides |-> <<>>, offset |-> 0]

Live(i) == tensors[i].storage # 0

NumLive == Cardinality({i \in Slots : Live(i)})

\* The Tensor of binding i, in bindings ts and heap, as its methods see it (&self).
ValOf(ts, heap, i) ==
    [data |-> heap[ts[i].storage], shape |-> ts[i].shape,
     strides |-> ts[i].strides, offset |-> ts[i].offset]

Val(i) == ValOf(tensors, store, i)

\* The record of the latest call: its name, arguments and outcome.
NoCall ==
    [op |-> "none", status |-> "ok", msg |-> NoMsg, self |-> 0, other |-> 0,
     dst |-> 0, indices |-> <<>>, value |-> Num(0), data |-> <<>>, dims |-> <<>>,
     ret |-> Num(0), idx |-> 0, out |-> "", visited |-> <<>>, evals |-> 0,
     moved |-> {}]

Call(op, out) ==
    [NoCall EXCEPT !.op = op, !.status = out.status, !.msg = out.msg,
                   !.ret = out.ret, !.idx = out.idx, !.evals = out.evals]

Init ==
    /\ tensors = [i \in Slots |-> Nil]
    /\ store = <<>>
    /\ last = NoCall
    /\ left = MaxOps

\* A panic ends the program; left counts the calls it may still make.
Running == last.status # "panic" /\ left > 0

\* A result is bound to the first free binding, or to the last one when none is free
\* (the Tensor that binding held is dropped).
DstOk(dst) ==
    IF NumLive = NumSlots THEN dst = NumSlots
    ELSE ~Live(dst) /\ \A i \in 1..(dst - 1) : Live(i)

\* The identity of a newly allocated buffer.
FreshId ==
    CHOOSE id \in 1..(NumSlots + 1) :
        /\ id \notin DOMAIN store
        /\ \A x \in 1..(id - 1) : x \in DOMAIN store

\* Every value of the outcome's buffer is one the model follows.
AllFollowed(out) == \A p \in 1..Len(out.data) : Followed(out.data[p])

\* The buffers that are still owned by some Tensor.
Owned(ts, heap) ==
    [id \in {ts[i].storage : i \in Slots} \cap DOMAIN heap |-> heap[id]]

\* let dst = <out>: the Tensor owns the buffer id; the Tensor dst held is dropped.
Bind(dst, out, id) ==
    LET ts == [tensors EXCEPT ![dst] =
                 [storage |-> id, shape |-> out.shape, strides |-> out.strides,
                  offset |-> out.offset]]
        heap == [x \in DOMAIN store \cup {id} |->
                   IF x = id THEN out.data ELSE store[x]]
    IN  /\ tensors' = ts
        /\ store' = Owned(ts, heap)

\* The end of a call that returns a Tensor or panics.
Returns(dst, out, id, call) ==
    /\ AllFollowed(out)
    /\ last' = call
    /\ left' = left - 1
    /\ IF out.status = "ok"
       THEN Bind(dst, out, id)
       ELSE UNCHANGED <<tensors, store>>

\* The bindings once the Tensors of the bindings in moved have been moved out of
\* them (passed by value): these bindings hold no Tensor any more.
MovedOut(moved) == [i \in Slots |-> IF i \in moved THEN Nil ELSE tensors[i]]

\* The end of an operator function (Neg, Add, Sub, Mul, Div) that took the operands
\* in moved by value: it returns the method's result or panics as the method does,
\* and in both cases the operands it owns are dropped and their buffers freed.
ReturnsDropping(dst, out, id, call, moved) ==
    /\ AllFollowed(out)
    /\ last' = [call EXCEPT !.moved = moved]
    /\ left' = left - 1
    /\ LET held == MovedOut(moved)
           ts == IF out.status = "ok"
                 THEN [held EXCEPT ![dst] =
                         [storage |-> id, shape |-> out.shape,
                          strides |-> out.strides, offset |-> out.offset]]
                 ELSE held
           heap == IF out.status = "ok"
                   THEN [x \in DOMAIN store \cup {id} |->
                           IF x = id THEN out.data ELSE store[x]]
                   ELSE store
       IN  /\ tensors' = ts
           /\ store' = Owned(ts, heap)

\* The operands a binary operator expression can take by value: the left one, the
\* right one or both, and none when both operands are one binding (a binding cannot
\* be moved while it is borrowed or moved again).  An expression that takes both
\* operands by reference (&a + &b) is the call of the method and nothing more.
ByValue(i, j) == IF i = j THEN {} ELSE {{i}, {j}, {i, j}}

-----------------------------------------------------------------------------
(* The calls *)

\* let dst = Tensor::zeros(dims)
Zeros(dims, dst) ==
    /\ Running /\ DstOk(dst)
    /\ LET out == TensorZeros(dims)
       IN  Returns(dst, out, FreshId,
                   [Call("zeros", out) EXCEPT !.dims = dims, !.dst = dst])

\* let dst = Tensor::from_vec(data, dims)
FromVec(data, dims, dst) ==
    /\ Running /\ DstOk(dst)
    /\ LET out == TensorFromVec(data, dims)
       IN  Returns(dst, out, FreshId,
                   [Call("from_vec", out) EXCEPT !.data = data, !.dims = dims,
                                                 !.dst = dst])

\* A clone of a Storage as it would be if it shared the buffer it was cloned from.
StorageCloneShared(id) == id

\* #[derive(Clone)] on Storage: the clone's buffer is a new Vec.
StorageClone(id) == FreshId

\* #[derive(Clone)] on Tensor: every field is cloned.
TensorClone(t) ==
    [NoOutcome EXCEPT !.data = t.data, !.shape = t.shape,
                      !.strides = t.strides, !.offset = t.offset]

\* let dst = tensors[i].clone()
Clone(i, dst) ==
    /\ Running /\ Live(i) /\ DstOk(dst)
    /\ LET out == TensorClone(Val(i))
       IN  Returns(dst, out, StorageClone(tensors[i].storage),
                   [Call("clone", out) EXCEPT !.self = i, !.dst = dst])

\* tensors[i].set(indices, value)
Set(i, indices, value) ==
    /\ Running /\ Live(i)
    /\ LET out == TensorSet(Val(i), indices, value)
       IN  /\ last' = [Call("set", out) EXCEPT !.self = i, !.indices = indices,
                                               !.value = value]
           /\ left' = left - 1
           /\ IF out.status = "ok"
              THEN /\ store' = [store EXCEPT ![tensors[i].storage] = out.data]
                   /\ UNCHANGED tensors
              ELSE UNCHANGED <<tensors, store>>

\* tensors[i].get(indices)
Get(i, indices) ==
    /\ Running /\ Live(i)
    /\ last' = [Call("get", TensorGet(Val(i), indices))
                  EXCEPT !.self = i, !.indices = indices]
    /\ left' = left - 1
    /\ UNCHANGED <<tensors, store>>

\* tensors[i].linear_index(indices)
LinearIndexCall(i, indices) ==
    /\ Running /\ Live(i)
    /\ last' = [Call("linear_index", LinearIndex(Val(i), indices))
                  EXCEPT !.self = i, !.indices = indices]
    /\ left' = left - 1
    /\ UNCHANGED <<tensors, store>>

\* let dst = tensors[i].add(&tensors[j])
Add(i, j, dst) ==
    /\ Running /\ Live(i) /\ Live(j) /\ DstOk(dst)
    /\ LET out == TensorAdd(Val(i), Val(j))
       IN  Returns(dst, out, FreshId,
                   [Call("add", out) EXCEPT !.self = i, !.other = j, !.dst = dst])

\* let dst = tensors[i].sub(&tensors[j])
Sub(i, j, dst) ==
    /\ Running /\ Live(i) /\ Live(j) /\ DstOk(dst)
    /\ LET out == TensorSub(Val(i), Val(j))
       IN  Returns(dst, out, FreshId,
                   [Call("sub", out) EXCEPT !.self = i, !.other = j, !.dst = dst])

\* let dst = tensors[i].mul(&tensors[j])
Mul(i, j, dst) ==
    /\ Running /\ Live(i) /\ Live(j) /\ DstOk(dst)
    /\ LET out == TensorMul(Val(i), Val(j))
       IN  Returns(dst, out, FreshId,
                   [Call("mul", out) EXCEPT !.self = i, !.other = j, !.dst = dst])

\* let dst = tensors[i].div(&tensors[j])
Div(i, j, dst) ==
    /\ Running /\ Live(i) /\ Live(j) /\ DstOk(dst)
    /\ LET out == TensorDiv(Val(i), Val(j))
       IN  Returns(dst, out, FreshId,
                   [Call("div", out) EXCEPT !.self = i, !.other = j, !.dst = dst])

\* let dst = tensors[i].scalar_add(scalar)
ScalarAdd(i, scalar, dst) ==
    /\ Running /\ Live(i) /\ DstOk(dst)
    /\ LET out == TensorScalarAdd(Val(i), scalar)
       IN  Returns(dst, out, FreshId,
                   [Call("scalar_add", out) EXCEPT !.self = i, !.value = scalar,
                                                   !.dst = dst])

\* let dst = tensors[i].scalar_mul(scalar)
ScalarMul(i, scalar, dst) ==
    /\ Running /\ Live(i) /\ DstOk(dst)
    /\ LET out == TensorScalarMul(Val(i), scalar)
       IN  Returns(dst, out, FreshId,
                   [Call("scalar_mul", out) EXCEPT !.self = i, !.value = scalar,
                                                   !.dst = dst])

\* let dst = tensors[i].neg()
Neg(i, dst) ==
    /\ Running /\ Live(i) /\ DstOk(dst)
    /\ LET out == TensorNeg(Val(i))
       IN  Returns(dst, out, FreshId,
                   [Call("neg", out) EXCEPT !.self = i, !.dst = dst])

\* let dst = tensors[i].matmul(&tensors[j])
Matmul(i, j, dst) ==
    /\ Running /\ Live(i) /\ Live(j) /\ DstOk(dst)
    /\ LET out == TensorMatmul(Val(i), Val(j))
       IN  Returns(dst, out, FreshId,
                   [Call("matmul", out) EXCEPT !.self = i, !.other = j, !.dst = dst])

\* let dst = -tensors[i]: the operand is moved (-&tensors[i] is Neg)
NegOp(i, dst) ==
    /\ Running /\ Live(i) /\ DstOk(dst)
    /\ LET out == TensorNeg(Val(i))
       IN  ReturnsDropping(dst, out, FreshId,
                           [Call("neg", out) EXCEPT !.self = i, !.dst = dst], {i})

\* let dst = x + y, with x either tensors[i] (moved) or &tensors[i], y likewise, and
\* at least one of them moved (&tensors[i] + &tensors[j] is Add)
AddOp(i, j, dst, moved) ==
    /\ Running /\ Live(i) /\ Live(j) /\ DstOk(dst)
    /\ LET out == TensorAdd(Val(i), Val(j))
       IN  ReturnsDropping(dst, out, FreshId,
                           [Call("add", out) EXCEPT !.self = i, !.other = j,
                                                    !.dst = dst], moved)

\* let dst = x - y
SubOp(i, j, dst, moved) ==
    /\ Running /\ Live(i) /\ Live(j) /\ DstOk(dst)
    /\ LET out == TensorSub(Val(i), Val(j))
       IN  ReturnsDropping(dst, out, FreshId,
                           [Call("sub", out) EXCEPT !.self = i, !.other = j,
                                                    !.dst = dst], moved)

\* let dst = x * y
MulOp(i, j, dst, moved) ==
    /\ Running /\ Live(i) /\ Live(j) /\ DstOk(dst)
    /\ LET out == TensorMul(Val(i), Val(j))
       IN  ReturnsDropping(dst, out, FreshId,
                           [Call("mul", out) EXCEPT !.self = i, !.other = j,
                                                    !.dst = dst], moved)

\* let dst = x / y
DivOp(i, j, dst, moved) ==
    /\ Running /\ Live(i) /\ Live(j) /\ DstOk(dst)
    /\ LET out == TensorDiv(Val(i), Val(j))
       IN  ReturnsDropping(dst, out, FreshId,
                           [Call("div", out) EXCEPT !.self = i, !.other = j,
                                                    !.dst = dst], moved)

\* let dst = tensors[i] * scalar, or let dst = scalar * tensors[i]: the operand is
\* moved (with &tensors[i] it is ScalarMul)
ScalarMulOp(i, scalar, dst) ==
    /\ Running /\ Live(i) /\ DstOk(dst)
    /\ LET out == TensorScalarMul(Val(i), scalar)
       IN  ReturnsDropping(dst, out, FreshId,
                           [Call("scalar_mul", out) EXCEPT !.self = i, !.value = scalar,
                                                           !.dst = dst], {i})

\* format!("{}", tensors[i]); idx records the running offset at the end.
Display(i) ==
    /\ Running /\ Live(i)
    /\ LET f == TensorDisplay(Val(i))
       IN  last' = [NoCall EXCEPT !.op = "display", !.status = f.status,
                                  !.msg = f.msg, !.self = i, !.out = f.out,
                                  !.visited = f.visited, !.idx = f.offset]
    /\ left' = left - 1
    /\ UNCHANGED <<tensors, store>>

\* The bindings whose Tensor the program's next call can be made on, and the binding
\* that takes the result of the next call.
Operands == {i \in Slots : Running /\ Live(i)}
Results == {dst \in Slots : Running /\ DstOk(dst)}

Next ==
    \/ \E dst \in Results, dims \in ZerosInputs : Zeros(dims, dst)
    \/ \E dst \in Results, in \in FromVecInputs : FromVec(in[1], in[2], dst)
    \/ \E i \in Operands, dst \in Results : Clone(i, dst)
    \/ \E i \in Operands, indices \in IndexInputs, value \in ValueInputs :
          Set(i, indices, value)
    \/ \E i \in Operands, indices \in IndexInputs : Get(i, indices)
    \/ \E i \in Operands, indices \in IndexInputs : LinearIndexCall(i, indices)
    \/ \E i, j \in Operands, dst \in Results : Add(i, j, dst)
    \/ \E i, j \in Operands, dst \in Results : Sub(i, j, dst)
    \/ \E i, j \in Operands, dst \in Results : Mul(i, j, dst)
    \/ \E i, j \in Operands, dst \in Results : Div(i, j, dst)
    \/ \E i \in Operands, dst \in Results, scalar \in ScalarInputs :
          ScalarAdd(i, scalar, dst)
    \/ \E i \in Operands, dst \in Results, scalar \in ScalarInputs :
          ScalarMul(i, scalar, dst)
    \/ \E i \in Operands, dst \in Results : Neg(i, dst)
    \/ \E i, j \in Operands, dst \in Results : Matmul(i, j, dst)
    \/ \E i \in Operands : Display(i)
    \/ \E i \in Operands, dst \in Results : NegOp(i, dst)
    \/ \E i, j \in Operands, dst \in Results :
          \E moved \in ByValue(i, j) : AddOp(i, j, dst, moved)
    \/ \E i, j \in Operands, dst \in Results :
          \E moved \in ByValue(i, j) : SubOp(i, j, dst, moved)
    \/ \E i, j \in Operands, dst \in Results :
          \E moved \in ByValue(i, j) : MulOp(i, j, dst, moved)
    \/ \E i, j \in Operands, dst \in Results :
          \E moved \in ByValue(i, j) : DivOp(i, j, dst, moved)
    \/ \E i \in Operands, dst \in Results, scalar \in ScalarInputs :
          ScalarMulOp(i, scalar, dst)

Spec == Init /\ [][Next]_vars

-----------------------------------------------------------------------------
(* Display as a function of the Tensor it is given *)

\* The state after the program's first call, a constructor call that returned out.
Constructed(out, call) ==
    /\ tensors = [i \in Slots |->
                    IF i = 1
                    THEN [storage |-> 1, shape |-> out.shape, strides |-> out.strides,
                          offset |-> out.offset]
                    ELSE Nil]
    /\ store = <<out.data>>
    /\ last = call
    /\ left = MaxOps - 1

\* let t = Tensor::zeros(dims), or let t = Tensor::from_vec(data, dims) with
\* distinct elements: the Tensors that are displayed.
InitDisplay ==
    \/ \E dims \in DisplayDims :
          LET out == TensorZeros(dims)
          IN  Constructed(out, [Call("zeros", out) EXCEPT !.dims = dims, !.dst = 1])
    \/ \E dims \in {d \in DisplayDims :
                       AllFollowed(TensorFromVec(Iota(Nelems(d)), d))} :
          LET data == Iota(Nelems(dims))
              out == TensorFromVec(data, dims)
          IN  Constructed(out, [Call("from_vec", out) EXCEPT !.data = data,
                                                             !.dims = dims, !.dst = 1])

NextDisplay == \E i \in Operands : Display(i)

SpecDisplay == InitDisplay /\ [][NextDisplay]_vars

-----------------------------------------------------------------------------
(* Vocabulary of the properties *)

\* The latest step was a call (every call uses up one of the calls left).
Called == left' = left - 1

\* The Tensors before and after the latest step.
Before(i) == ValOf(tensors, store, i)
After(i) == ValOf(tensors', store', i)

RECURSIVE MaxOf(_)
MaxOf(dims) ==
    IF dims = <<>> THEN 0
    ELSE IF Head(dims) > MaxOf(Tail(dims)) THEN Head(dims) ELSE MaxOf(Tail(dims))

\* The multi-indices that are in range for a shape.
InRange(dims) ==
    {idx \in [1..Len(dims) -> 0..(MaxOf(dims) - 1)] :
        \A p \in 1..Len(dims) : idx[p] < dims[p]}

\* The multi-indices of the right length whose components do not exceed top.
UpTo(dims, top) == [1..Len(dims) -> 0..top]

\* Lexicographic order on multi-indices of one length (last dimension fastest).
LexLess(a, b) ==
    \E p \in 1..Len(a) : a[p] < b[p] /\ \A q \in 1..(p - 1) : a[q] = b[q]

\* The position of idx among the in-range multi-indices in lexicographic order.
LexRank(dims, idx) == Cardinality({j \in InRange(dims) : LexLess(j, idx)})

\* The product of the dims, taken from the last dimension to the first.
RECURSIVE ProductOf(_, _)
ProductOf(dims, n) == IF n = 0 THEN 1 ELSE ProductOf(dims, n - 1) * dims[n]

BinaryOps == {"add", "sub", "mul", "div"}

\* The operator a binary call combines its operands with.
Combine(op, x, y) ==
    CASE op = "add" -> FAdd(x, y)
      [] op = "sub" -> FSub(x, y)
      [] op = "mul" -> FMul(x, y)
      [] op = "div" -> FDiv(x, y)

\* The sum of a[i, kk] * b[kk, j] over kk < n, accumulated in increasing kk from 0.0.
RECURSIVE DotUpTo(_, _, _, _, _)
DotUpTo(a, b, i, j, n) ==
    IF n = 0 THEN Num(0)
    ELSE FAdd(DotUpTo(a, b, i, j, n - 1),
              FMul(TensorGet(a, <<i, n - 1>>).ret, TensorGet(b, <<n - 1, j>>).ret))

\* The positions of a dimension of the given size that a rendering shows: all of
\* them up to size 6, the first 3 and the last 3 beyond.
Kept(size) ==
    IF size > 6 THEN {i \in 0..(size - 1) : i < 3 \/ i >= size - 3} ELSE 0..(size - 1)

\* The multi-indices of the elements that a rendering shows.
Shown(dims) ==
    {idx \in InRange(dims) : \A p \in 1..Len(dims) : idx[p] \in Kept(dims[p])}

\* The position (from 1) at which a rendering prints the element at idx: the shown
\* elements are printed in lexicographic order of their multi-indices.
PrintedAt(shown, idx) == Cardinality({j \in shown : LexLess(j, idx)}) + 1

\* How many times dimension p (1-based) is rendered: once for each shown choice of
\* the positions of the dimensions before it.
RECURSIVE Renderings(_, _)
Renderings(dims, p) ==
    IF p = 1 THEN 1 ELSE Renderings(dims, p - 1) * Cardinality(Kept(dims[p - 1]))

\* The number of ellipsis markers in a text.
Ellipses(text) ==
    Cardinality({p \in 1..(Len(text) - 4) : SubSeq(text, p, p + 4) = "..., "})

\* The sum of f over the positions 1..n.
RECURSIVE SumOver(_, _)
SumOver(f, n) == IF n = 0 THEN 0 ELSE SumOver(f, n - 1) + f[n]

\* The text a Tensor should render to below the multi-index prefix idx: the elements
\* are get(idx) at four decimals, a dimension of size over 6 shows its first 3
\* positions, one ellipsis marker and its last 3 positions, and positions are
\* separated by ", ", followed in an outer dimension by a new line and its indent.
RECURSIVE Rendered(_, _), RenderedFrom(_, _, _)
Rendered(t, idx) ==
    IF Len(idx) = Len(t.shape) THEN Fmt4(TensorGet(t, idx).ret)
    ELSE "[" \o RenderedFrom(t, idx, 0) \o "]"

RenderedFrom(t, idx, i) ==
    LET depth == Len(idx) + 1
        size == t.shape[depth]
        sep == ", " \o (IF depth < Len(t.shape) THEN "\n" \o Spaces(depth) ELSE "")
    IN  IF i >= size THEN ""
        ELSE IF size > 6 /\ i = 3 THEN "..., " \o RenderedFrom(t, idx, size - 3)
        ELSE Rendered(t, Append(idx, i)) \o (IF i < size - 1 THEN sep ELSE "")
             \o RenderedFrom(t, idx, i + 1)

-----------------------------------------------------------------------------
(* Properties *)

\* C1: every Tensor the program holds has as many storage elements as the product
\* of its dims, and a from_vec call whose data would break this panics.
C1_ShapeMatchesStorage ==
    /\ \A i \in Slots :
          Live(i) => ProductOf(tensors[i].shape, Len(tensors[i].shape))
                       = Len(store[tensors[i].storage])
    /\ (last.op = "from_vec" /\ Len(last.data) # ProductOf(last.dims, Len(last.dims)))
          => last.status = "panic"

\* C1 witness: a matmul of two constructed operands has returned a 2 x 2 Tensor.
C1_Witness ==
    /\ last.op = "matmul" /\ last.status = "ok"
    /\ tensors[last.dst].shape = <<2, 2>>
    /\ Len(store[tensors[last.dst].storage]) = 4

\* C2: after from_vec(data, dims) succeeds, get at the in-range multi-indices, taken
\* in lexicographic order, yields data[0], data[1], ... in that order.
C2_RoundTrip ==
    (last.op = "from_vec" /\ last.status = "ok") =>
        /\ Cardinality(InRange(last.dims)) = Len(last.data)
        /\ \A idx \in InRange(last.dims) :
              LET got == TensorGet(Val(last.dst), idx)
              IN  /\ got.status = "ok"
                  /\ got.ret = last.data[LexRank(last.dims, idx) + 1]

\* C2 witness: from_vec has built a rank-3 Tensor of four distinct positions.
C2_Witness ==
    /\ last.op = "from_vec" /\ last.status = "ok"
    /\ last.dims = <<2, 1, 2>>
    /\ last.data = Buf(<<4, -2, 0, 1>>)

\* C3: a set that succeeds at idx changes the value get reads at idx to the value
\* set, and changes the value get reads at no other multi-index j of length ndim
\* at which get succeeds.
C3_SetIsLocal ==
    [][(Called /\ last'.op = "set" /\ last'.status = "ok") =>
         LET i == last'.self
         IN  /\ TensorGet(After(i), last'.indices).ret = last'.value
             /\ \A j \in UpTo(tensors[i].shape, Len(store[tensors[i].storage])) :
                   (j # last'.indices /\ TensorGet(Before(i), j).status = "ok")
                     => TensorGet(After(i), j) = TensorGet(Before(i), j)]_vars

\* C4: get and set panic whenever the number of indices differs from ndim or some
\* index is not below its dimension, and such a set leaves the storage as it was.
C4_BadIndexPanics ==
    [][(Called /\ last'.op \in {"get", "set"}) =>
         LET dims == tensors[last'.self].shape
             idx == last'.indices
         IN  (\/ Len(idx) # Len(dims)
              \/ \E p \in 1..Len(idx) : idx[p] >= dims[p])
               => (last'.status = "panic" /\ store' = store /\ tensors' = tensors)]_vars

\* C5: from_vec panics exactly when the data length differs from the product of the
\* dims, the panic reports the actual length and the expected count, and otherwise
\* the Tensor returned has shape dims, offset 0 and the data as its storage.
C5_FromVec ==
    last.op = "from_vec" =>
        LET expected == ProductOf(last.dims, Len(last.dims))
        IN  /\ last.status = "panic" <=> Len(last.data) # expected
            /\ last.status = "panic" =>
                  /\ last.msg.kind = "DataLength"
                  /\ last.msg.nums = <<Len(last.data), expected>>
            /\ last.status = "ok" =>
                  /\ tensors[last.dst].shape = last.dims
                  /\ tensors[last.dst].offset = 0
                  /\ store[tensors[last.dst].storage] = last.data

\* C5 witness: from_vec of 3 elements with shape [2, 3] has panicked, reporting 3 and 6.
C5_Witness ==
    /\ last.op = "from_vec" /\ last.status = "panic"
    /\ last.dims = <<2, 3>>
    /\ last.msg.nums = <<3, 6>>

\* C6: add, sub, mul and div panic with a shape mismatch naming both shapes whenever
\* the operands' dims differ, before any element is computed and with no Tensor
\* made: every binding holds the Tensor it held, or none if the operator took its
\* Tensor by value.
C6_ShapeMismatchPanics ==
    [][(/\ Called /\ last'.op \in BinaryOps
        /\ tensors[last'.self].shape # tensors[last'.other].shape) =>
         /\ last'.status = "panic"
         /\ last'.msg.kind = "ShapeMismatch"
         /\ last'.msg.shapes = <<tensors[last'.self].shape, tensors[last'.other].shape>>
         /\ last'.evals = 0
         /\ \A i \in Slots :
               IF i \in last'.moved THEN tensors'[i] = Nil
               ELSE tensors'[i] = tensors[i] /\ (Live(i) => After(i) = Before(i))
         /\ DOMAIN store' \subseteq DOMAIN store]_vars

\* C6 witness: an add of a [2, 3] and a [3, 2] Tensor (same element count) has panicked.
C6_Witness ==
    /\ last.op = "add" /\ last.status = "panic"
    /\ last.msg.shapes = << <<2, 3>>, <<3, 2>> >>

\* C7: on operands of one shape, add, sub, mul and div return a Tensor of that shape
\* whose element at every in-range multi-index is the operands' elements there
\* combined by the operator.
C7_Elementwise ==
    [][(/\ Called /\ last'.op \in BinaryOps
        /\ tensors[last'.self].shape = tensors[last'.other].shape) =>
         \A a \in {Before(last'.self)}, b \in {Before(last'.other)},
            c \in {After(last'.dst)} :
             /\ last'.status = "ok"
             /\ c.shape = a.shape
             /\ \A idx \in InRange(a.shape) :
                   TensorGet(c, idx).ret
                     = Combine(last'.op, TensorGet(a, idx).ret, TensorGet(b, idx).ret)]_vars

\* C7 witness: a sub of two different operands of shape [2] has returned [2, -2].
C7_Witness ==
    /\ last.op = "sub" /\ last.status = "ok" /\ last.self # last.other
    /\ Val(last.dst).data = Buf(<<2, -2>>)

\* C8: for a of shape [m, k] and b of shape [k, n], matmul returns a Tensor of shape
\* [m, n] whose element [i, j] is the sum over kk of a[i, kk] * b[kk, j], accumulated
\* in increasing kk from 0.0; [[1,2,3],[4,5,6]] @ [[7,8],[9,10],[11,12]] is
\* [[58,64],[139,154]].
C8_Matmul ==
    [][(/\ Called /\ last'.op = "matmul"
        /\ Len(tensors[last'.self].shape) = 2 /\ Len(tensors[last'.other].shape) = 2
        /\ tensors[last'.self].shape[2] = tensors[last'.other].shape[1]) =>
         \A a \in {Before(last'.self)}, b \in {Before(last'.other)},
            c \in {After(last'.dst)} :
             /\ last'.status = "ok"
             /\ c.shape = <<a.shape[1], b.shape[2]>>
             /\ \A idx \in InRange(c.shape) :
                   TensorGet(c, idx).ret = DotUpTo(a, b, idx[1], idx[2], a.shape[2])
             /\ (/\ a.shape = <<2, 3>> /\ a.data = Buf(<<1, 2, 3, 4, 5, 6>>)
                 /\ b.shape = <<3, 2>> /\ b.data = Buf(<<7, 8, 9, 10, 11, 12>>))
                  => c.data = Buf(<<58, 64, 139, 154>>)]_vars

\* C8 witness: matmul has returned [[58, 64], [139, 154]].
C8_Witness ==
    /\ last.op = "matmul" /\ last.status = "ok"
    /\ Val(last.dst).shape = <<2, 2>>
    /\ Val(last.dst).data = Buf(<<58, 64, 139, 154>>)

\* C9: matmul panics with a rank error naming self's rank when self is not 2-D,
\* else with one naming other's rank when other is not 2-D, else with an inner
\* dimension error naming all four dimensions when they disagree; in each case
\* before any element is read and with no Tensor made.
C9_MatmulPanics ==
    [][(Called /\ last'.op = "matmul") =>
         LET sa == tensors[last'.self].shape
             sb == tensors[last'.other].shape
             failed == /\ last'.status = "panic" /\ last'.evals = 0
                       /\ tensors' = tensors /\ store' = store
         IN  /\ Len(sa) # 2 =>
                  failed /\ last'.msg = Msg("Rank", <<Len(sa)>>, <<>>)
             /\ (Len(sa) = 2 /\ Len(sb) # 2) =>
                  failed /\ last'.msg = Msg("Rank", <<Len(sb)>>, <<>>)
             /\ (Len(sa) = 2 /\ Len(sb) = 2 /\ sa[2] # sb[1]) =>
                  failed /\ last'.msg
                              = Msg("InnerDimensions", <<sa[1], sa[2], sb[1], sb[2]>>, <<>>)]_vars

\* C9 witness: a matmul whose operands are both not 2-D, of different ranks, has
\* panicked.
C9_Witness ==
    /\ last.op = "matmul" /\ last.status = "panic"
    /\ Len(tensors[last.self].shape) # 2
    /\ Len(tensors[last.other].shape) # 2
    /\ Len(tensors[last.self].shape) # Len(tensors[last.other].shape)

\* C10: a call other than set changes no Tensor the program held (a new result
\* takes a binding, which drops the Tensor that binding held, and an operator that
\* took an operand by value leaves its binding without a Tensor); a set changes
\* nothing of any Tensor but the one it is called on, and of that one only the
\* storage; and no two Tensors ever share a buffer.
C10_OnlySetMutates ==
    [][Called =>
         /\ last'.op # "set" =>
               \A i \in Slots :
                   (Live(i) /\ ~(last'.status = "ok" /\ last'.dst = i))
                     => IF i \in last'.moved THEN tensors'[i] = Nil
                        ELSE tensors'[i] = tensors[i] /\ After(i) = Before(i)
         /\ last'.op = "set" =>
               /\ tensors' = tensors
               /\ \A i \in Slots : (Live(i) /\ i # last'.self) => After(i) = Before(i)
         /\ \A i, j \in Slots :
               (i # j /\ tensors'[i].storage # 0 /\ tensors'[j].storage # 0)
                 => tensors'[i].storage # tensors'[j].storage]_vars

\* C10 witness: a set on the second Tensor has succeeded while the first Tensor, of
\* the same shape (as after zeros and clone), still holds its zeros.
C10_Witness ==
    /\ last.op = "set" /\ last.status = "ok" /\ last.self = 2
    /\ Live(1) /\ tensors[1].shape = tensors[2].shape
    /\ Val(1).data = StorageZeros(Len(Val(1).data))
    /\ Val(1).data # Val(2).data

\* C11: the strides of every Tensor the program holds, which its constructor took
\* from Shape::strides, have the length of the dims, end in 1, and satisfy
\* strides[i] = strides[i + 1] * dims[i + 1] for every i before the last; they are
\* empty for empty dims; and two Tensors of the same dims, built by different
\* calls, have the same strides.
C11_Strides ==
    \A i \in Slots :
        Live(i) =>
            LET dims == tensors[i].shape
                strides == tensors[i].strides
                n == Len(dims)
            IN  /\ Len(strides) = n
                /\ n > 0 => strides[n] = 1
                /\ \A p \in 1..(n - 1) : strides[p] = strides[p + 1] * dims[p + 1]
                /\ dims = <<>> => strides = <<>>
                /\ \A j \in Slots :
                      (Live(j) /\ tensors[j].shape = dims) => tensors[j].strides = strides

\* C11 witness: a second constructor call on the dims [2, 1, 2] has returned, and
\* both Tensors of these dims have the strides [2, 2, 1].
C11_Witness ==
    /\ last.op \in {"zeros", "from_vec"} /\ last.status = "ok" /\ last.dst = 2
    /\ last.dims = <<2, 1, 2>>
    /\ \A i \in Slots : tensors[i].shape = <<2, 1, 2>> /\ tensors[i].strides = <<2, 2, 1>>
    /\ tensors[1].storage # tensors[2].storage

\* C12: the text of a displayed Tensor shows, in every dimension of size over 6,
\* exactly the first 3 and the last 3 positions with exactly one "..., " between
\* them, and in every dimension of size up to 6 all positions and no "..., "; the
\* elements at the positions in between are never read.
C12_Truncation ==
    last.op = "display" =>
        LET t == Val(last.self)
            dims == t.shape
        IN  /\ last.status = "ok"
            /\ last.out = "Tensor(" \o Rendered(t, <<>>) \o ", shape="
                             \o DebugDims(dims) \o ")"
            /\ Ellipses(last.out)
                 = SumOver([p \in 1..Len(dims) |->
                              IF dims[p] > 6 THEN Renderings(dims, p) ELSE 0], Len(dims))
            /\ Len(last.visited) = Cardinality(Shown(dims))
            /\ \A idx \in InRange(dims) :
                  (\E k \in 1..Len(last.visited) :
                       last.visited[k] = LinearIndex(t, idx).idx)
                    <=> idx \in Shown(dims)

\* C12 witness: a Tensor of dims [10, 2, 7] with distinct elements has been
\* displayed: 6 of 10, 2 of 2 and 6 of 7 positions are shown, with 1 + 6 * 2
\* ellipsis markers, and the element at [3, 0, 0] has not been read.
C12_Witness ==
    /\ last.op = "display" /\ last.status = "ok"
    /\ Val(last.self).shape = <<10, 2, 7>>
    /\ Val(last.self).data = Iota(140)
    /\ Len(last.visited) = 72
    /\ Ellipses(last.out) = 13
    /\ \A k \in 1..Len(last.visited) : last.visited[k] # 42

\* C13: when a Tensor built by a constructor is displayed, the running offset at
\* which each element is printed is linear_index of the multi-index at that place
\* of the text, so the value printed there is get of that multi-index; every read
\* is inside the storage, the offset ends no further than the storage length (it
\* never decreases), and the formatting does not panic.
C13_OffsetIsLinearIndex ==
    last.op = "display" =>
        LET t == Val(last.self)
            shown == Shown(t.shape)
        IN  /\ last.status = "ok"
            /\ Len(last.visited) = Cardinality(shown)
            /\ \A idx \in shown :
                  LET offset == last.visited[PrintedAt(shown, idx)]
                  IN  /\ offset = LinearIndex(t, idx).idx
                      /\ TensorGet(t, idx).status = "ok"
                      /\ t.data[offset + 1] = TensorGet(t, idx).ret
            /\ \A k \in 1..Len(last.visited) : last.visited[k] < Len(t.data)
            /\ last.idx <= Len(t.data)

\* C13 witness: a Tensor of dims [7, 10, 2] with distinct elements, truncated in two
\* dimensions at once, has been displayed; the last element printed, at [6, 9, 1],
\* was read at offset 139, and the offset ended at the storage length 140.
C13_Witness ==
    /\ last.op = "display" /\ last.status = "ok"
    /\ Val(last.self).shape = <<7, 10, 2>>
    /\ Val(last.self).data = Iota(140)
    /\ last.visited[Len(last.visited)] = 139
    /\ LinearIndex(Val(last.self), <<6, 9, 1>>).idx = 139
    /\ last.idx = 140

====
